---- MODULE Spec2Model ----
(***************************************************************************)
(* Model of the query executor (influxdb3_server/src/query_executor/mod.rs) *)
(* and of the chunk loader (server/src/db/lifecycle/load.rs).              *)
(*                                                                         *)
(* The executor runs on a multi-threaded runtime: every call that touches  *)
(* shared state (the catalog, the query log, the telemetry counter, the    *)
(* semaphore) is one atomic step, and a query can be dropped at each of    *)
(* its await points.                                                       *)
(***************************************************************************)
EXTENDS Integers, Sequences, FiniteSets, TLC

\* ---------------------------------------------------------------- bounds
NumQueries == 2      \* concurrent calls of query
NumCallers == 3      \* concurrent callers of acquire_semaphore
MaxPermits == 2      \* capacity the semaphore is built with
MaxLogSize == 2      \* largest query_log_size an executor is built with
NumLoaders == 3      \* concurrent load attempts on the chunk
NumReaders == 1      \* concurrent readers of the chunk
MaxRows    == 2      \* rows written to the chunk
MaxNameLen == 5      \* longest name given to split_database_name
MaxDbs     == 3      \* most databases in a listed catalog
NumScans   == 2      \* scan calls compared with each other
MaxLimit   == 1      \* largest limit given to scan

Queries == 1..NumQueries
Callers == 1..NumCallers
Loaders == 1..NumLoaders
Readers == 1..NumReaders
Scans   == 1..NumScans
Rows    == 1..MaxRows

\* Database names a client can create, and the name a deleted database is
\* kept under (the catalog renames a database when it marks it deleted).
BaseNames == {"foo"}
Tombstone(n) == n \o "-deleted"
AllNames == BaseNames \cup {Tombstone(n) : n \in BaseNames}
\* Names a client may pass to query: the catalog's names and one that is never
\* created.
QueryNames == AllNames \cup {"bar"}

TableNamesSet == {"cpu"}
\* Arguments of scan: projection, filters and limit.
Projections == {"None", "Some([0])"}
FilterSets == {{}, {"time > 0"}}
\* Option<usize>: <<>> is None, <<n>> is Some(n).
Limits == {<<>>} \cup {<<n>> : n \in 0..MaxLimit}

\* Characters are byte values: '/' (mod.rs 330) and the letters 'a', 'b', 'c'.
Slash == 47
Letters == {97, 98, 99}
Alphabet == Letters \cup {Slash}
\* AUTOGEN_RETENTION_POLICY (mod.rs 327): "autogen".
Autogen == <<97, 117, 116, 111, 103, 101, 110>>
\* Database names of the listed catalogs: "a", "b", "a/b", "b/a", "a/b/a".
CatNames ==
    {<<97>>, <<98>>, <<97, Slash, 98>>, <<98, Slash, 97>>,
     <<97, Slash, 98, Slash, 97>>}
PlanErrors == {"parse", "bind"}
ExecErrors == {"exec"}

VARIABLES
    catalog,          \* name -> "absent" | "live" | "deleted"
    tables,           \* name -> tables of the schema registered under it
    logSize,          \* query_log_size the executor was built with
    pc,               \* query call -> position in query()
    qdb,              \* query call -> its database argument
    qschema,          \* query call -> the DatabaseSchema its Database holds
    result,           \* query call -> what query() returned
    tokenHist,        \* query call -> states its log entry went through
    queryLog,         \* the shared QueryLog: entries (by call), oldest first
    pushed,           \* history: every call that pushed an entry, in push order
    completed,        \* history: calls in the order they were marked terminal
    numQueries,       \* telemetry_store's query counter
    plannerCalls,     \* query call -> number of planner invocations
    planOutcome,      \* query call -> "none" | "ok" | the planner's error
    execOutcome,      \* query call -> "none" | "ok" | execute_stream's error
    execStarted,      \* query call -> ctx.execute_stream was called
    streamErr,        \* query call -> the returned stream ended in an error
    permitsAvailable, \* query_execution_semaphore: free permits
    permitHolders,    \* owners of the outstanding owned permits
    cpc,              \* caller of acquire_semaphore -> position
    cend,             \* caller -> how its scope ended
    stage,            \* the chunk's storage tier
    lifecycleAction,  \* 0, or the loader whose LoadingReadBuffer action is set
    chunkWriter,      \* loaders holding the chunk's write guard
    chunkReaders,     \* readers holding a read guard on the chunk
    seen,             \* reader -> what it found under its read guard
    osRows,           \* rows of the object-store copy ({} when there is none)
    rbRows,           \* rows of the read-buffer copy
    rbPresent,        \* the chunk has a read-buffer copy
    deletePreds,      \* rows matched by the chunk's delete predicates
    lpc,              \* loader -> position in load_chunk / its future
    lres,             \* loader -> outcome of load_chunk or of its future
    job,              \* loader -> "none" | "running" | "complete"
    jobsRegistered,   \* number of jobs registered with db.jobs
    snapshot,         \* loader -> rows the reorg plan of its DbChunk yields
    splitIn,          \* the name given to split_database_name
    splitOut,         \* what split_database_name returned for it
    dbList,           \* the catalog's databases as the listing calls see them
    showOut,          \* include_deleted -> what show_databases returned
    rpPc,             \* position in show_retention_policies
    rpArg,            \* its database argument (NoArg for all databases)
    rpTodo,           \* the sorted names still to be resolved
    rpRows,           \* the rows pushed so far
    rpOut,            \* what show_retention_policies returned
    rpListed,         \* history: the names the call listed at its start
    scanIn,           \* scan call -> its table and arguments
    scans             \* scan call -> position, request, outcomes, result

queryVars == <<catalog, tables, logSize, pc, qdb, qschema, result, tokenHist,
               queryLog, pushed, completed, numQueries, plannerCalls,
               planOutcome, execOutcome, execStarted, streamErr>>
permitVars == <<permitsAvailable, permitHolders, cpc, cend>>
loadVars == <<stage, lifecycleAction, chunkWriter, chunkReaders, seen, osRows,
              rbRows, rbPresent, deletePreds, lpc, lres, job,
              jobsRegistered, snapshot>>
listVars == <<splitIn, splitOut, dbList, showOut, rpPc, rpArg, rpTodo, rpRows,
              rpOut, rpListed, scanIn, scans>>
vars == <<queryVars, permitVars, loadVars, listVars>>

NoResult == [kind |-> "none", arg |-> ""]

\* ---------------------------------------------------------------- catalog
\* Catalog::db_schema(name): the schema registered under that name, if any.
NoSchema == [name |-> "", deleted |-> FALSE, tables |-> {}]
DbSchema(name) ==
    IF name \in DOMAIN catalog /\ catalog[name] # "absent"
    THEN [name |-> name, deleted |-> catalog[name] = "deleted",
          tables |-> tables[name]]
    ELSE NoSchema

DbResolves(name) == DbSchema(name).name # ""

\* Faulty variant: namespace that never reports a missing database.
NamespaceAnyName(name) ==
    [ok |-> TRUE, db |-> [name |-> name, deleted |-> FALSE, tables |-> {}]]

\* QueryExecutorImpl::namespace: Err(DatabaseNotFound) when the catalog has
\* no schema under the name, Ok(Some(Database)) otherwise.
Namespace(name) ==
    IF DbResolves(name)
    THEN [ok |-> TRUE, db |-> DbSchema(name)]
    ELSE [ok |-> FALSE, db |-> DbSchema(name)]

CreateDatabase(n) ==
    /\ n \in BaseNames
    /\ catalog[n] = "absent"
    /\ catalog' = [catalog EXCEPT ![n] = "live"]
    /\ tables' = [tables EXCEPT ![n] = {}]
    /\ UNCHANGED <<pc, qdb, result, tokenHist, queryLog, pushed, numQueries,
                   plannerCalls, planOutcome, execOutcome, execStarted,
                   streamErr>>
    /\ UNCHANGED <<logSize, qschema, completed>>
    /\ UNCHANGED <<permitVars, loadVars, listVars>>

\* Soft delete: the schema is marked deleted and renamed, so the old name no
\* longer resolves.
DeleteDatabase(n) ==
    /\ n \in BaseNames
    /\ catalog[n] = "live"
    /\ catalog[Tombstone(n)] = "absent"
    /\ catalog' = [catalog EXCEPT ![n] = "absent", ![Tombstone(n)] = "deleted"]
    /\ tables' = [tables EXCEPT ![n] = {}, ![Tombstone(n)] = tables[n]]
    /\ UNCHANGED <<pc, qdb, result, tokenHist, queryLog, pushed, numQueries,
                   plannerCalls, planOutcome, execOutcome, execStarted,
                   streamErr>>
    /\ UNCHANGED <<logSize, qschema, completed>>
    /\ UNCHANGED <<permitVars, loadVars, listVars>>

\* Ingestion adds a table to a live database, or a table is removed from it;
\* the catalog installs a new schema under the name and leaves the schemas it
\* handed out earlier as they are.
AddTable(n, t) ==
    /\ catalog[n] = "live"
    /\ t \notin tables[n]
    /\ tables' = [tables EXCEPT ![n] = @ \cup {t}]
    /\ UNCHANGED <<catalog, logSize, pc, qdb, qschema, result, tokenHist,
                   queryLog, pushed, completed, numQueries, plannerCalls,
                   planOutcome, execOutcome, execStarted, streamErr>>
    /\ UNCHANGED <<permitVars, loadVars, listVars>>

DropTable(n, t) ==
    /\ catalog[n] = "live"
    /\ t \in tables[n]
    /\ tables' = [tables EXCEPT ![n] = @ \ {t}]
    /\ UNCHANGED <<catalog, logSize, pc, qdb, qschema, result, tokenHist,
                   queryLog, pushed, completed, numQueries, plannerCalls,
                   planOutcome, execOutcome, execStarted, streamErr>>
    /\ UNCHANGED <<permitVars, loadVars, listVars>>

\* Faulty variant: the table list is read from the catalog at the time of
\* the call instead of from the schema the Database was built with.
TableNamesLive(q) == DbSchema(qdb[q]).tables

\* Database::table_names (mod.rs 533-539), table_exist (548-550) and
\* query_table (424-436, behind table): answered from self.db_schema.
TableNames(q) == qschema[q].tables
TableExist(q, t) == t \in TableNames(q)
QueryTable(q, t) ==
    IF t \in TableNames(q)
    THEN [found |-> TRUE, table |-> t, db |-> qschema[q].name]
    ELSE [found |-> FALSE, table |-> "", db |-> ""]

\* ---------------------------------------------------------------- query log
\* QueryLog::push: append, evicting the oldest entry when the log is full.
LogPush(log, q) ==
    IF logSize = 0 THEN log
    ELSE IF Len(log) >= logSize THEN Append(Tail(log), q)
    ELSE Append(log, q)

\* Faulty variant: the entry goes to a log of the call's own instead of the
\* executor's shared one.
RecordQueryOwnLog(q) ==
    /\ queryLog' = LogPush(<<>>, q)
    /\ pushed' = Append(pushed, q)
    /\ tokenHist' = [tokenHist EXCEPT ![q] = Append(@, "Received")]

\* Database::record_query: one push; the token starts in Received.
RecordQuery(q) ==
    /\ queryLog' = LogPush(queryLog, q)
    /\ pushed' = Append(pushed, q)
    /\ tokenHist' = [tokenHist EXCEPT ![q] = Append(@, "Received")]

\* QueryExecutorImpl::query_log (mod.rs 371-373): the entries of the shared
\* log, oldest first.
QueryLogEntries == queryLog

TokenState(q) ==
    IF tokenHist[q] = <<>> THEN "none" ELSE tokenHist[q][Len(tokenHist[q])]

\* token.planned / token.permit / token.success / token.fail
TokenPlanned(h) == Append(h, "Planned")
TokenPermit(h) == Append(h, "Permitted")
TokenSuccess(h) == Append(h, "Success")
TokenFail(h) == Append(h, "Failed")

\* ---------------------------------------------------------------- query()
\* Faulty variant: the query is recorded before its database is resolved.
QueryStartRecordsFirst(q, db) ==
    /\ pc[q] = "idle"
    /\ qdb' = [qdb EXCEPT ![q] = db]
    /\ RecordQuery(q)
    /\ IF ~Namespace(db).ok
       THEN /\ result' = [result EXCEPT ![q] =
                             [kind |-> "DatabaseNotFound", arg |-> db]]
            /\ pc' = [pc EXCEPT ![q] = "done"]
            /\ UNCHANGED <<qschema, plannerCalls>>
       ELSE /\ qschema' = [qschema EXCEPT ![q] = Namespace(db).db]
            /\ plannerCalls' = [plannerCalls EXCEPT ![q] = @ + 1]
            /\ pc' = [pc EXCEPT ![q] = "planning"]
            /\ UNCHANGED result
    /\ UNCHANGED <<catalog, numQueries, planOutcome, execOutcome, execStarted,
                   streamErr>>
    /\ UNCHANGED <<logSize, tables, completed>>
    /\ UNCHANGED <<permitVars, loadVars, listVars>>

\* mod.rs 125-159: resolve the database, record the query, build the context
\* and dispatch planning.
QueryStart(q, db) ==
    /\ pc[q] = "idle"
    /\ qdb' = [qdb EXCEPT ![q] = db]
    /\ IF ~Namespace(db).ok
       THEN /\ result' = [result EXCEPT ![q] =
                             [kind |-> "DatabaseNotFound", arg |-> db]]
            /\ pc' = [pc EXCEPT ![q] = "done"]
            /\ UNCHANGED <<qschema, tokenHist, queryLog, pushed,
                           plannerCalls>>
       ELSE /\ qschema' = [qschema EXCEPT ![q] = Namespace(db).db]
            /\ RecordQuery(q)
            /\ plannerCalls' = [plannerCalls EXCEPT ![q] = @ + 1]
            /\ pc' = [pc EXCEPT ![q] = "planning"]
            /\ UNCHANGED result
    /\ UNCHANGED <<catalog, numQueries, planOutcome, execOutcome, execStarted,
                   streamErr>>
    /\ UNCHANGED <<logSize, tables, completed>>
    /\ UNCHANGED <<permitVars, loadVars, listVars>>

\* mod.rs 152-159: the planner, run on the executor's pool, returns a plan
\* or an error.
PlannerReturns(q, o) ==
    /\ pc[q] = "planning"
    /\ planOutcome' = [planOutcome EXCEPT ![q] = o]
    /\ pc' = [pc EXCEPT ![q] = "plan_returned"]
    /\ UNCHANGED <<catalog, qdb, result, tokenHist, queryLog, pushed,
                   numQueries, plannerCalls, execOutcome, execStarted,
                   streamErr>>
    /\ UNCHANGED <<logSize, tables, qschema, completed>>
    /\ UNCHANGED <<permitVars, loadVars, listVars>>

\* Faulty variant: a planning error dispatches the planner again.
QueryPlanFailedRetries(q) ==
    /\ pc[q] = "plan_returned"
    /\ planOutcome[q] \in PlanErrors
    /\ plannerCalls' = [plannerCalls EXCEPT ![q] = @ + 1]
    /\ planOutcome' = [planOutcome EXCEPT ![q] = "none"]
    /\ pc' = [pc EXCEPT ![q] = "planning"]
    /\ UNCHANGED <<catalog, qdb, result, tokenHist, queryLog, pushed,
                   numQueries, execOutcome, execStarted, streamErr>>
    /\ UNCHANGED <<logSize, tables, qschema, completed>>
    /\ UNCHANGED <<permitVars, loadVars, listVars>>

\* Faulty variant: the QueryPlanning error is returned without token.fail().
QueryPlanFailedUnmarked(q) ==
    /\ pc[q] = "plan_returned"
    /\ planOutcome[q] \in PlanErrors
    /\ result' = [result EXCEPT ![q] =
                     [kind |-> "QueryPlanning", arg |-> planOutcome[q]]]
    /\ pc' = [pc EXCEPT ![q] = "done"]
    /\ UNCHANGED <<catalog, qdb, tokenHist, queryLog, pushed, numQueries,
                   plannerCalls, planOutcome, execOutcome, execStarted,
                   streamErr>>
    /\ UNCHANGED <<logSize, tables, qschema, completed>>
    /\ UNCHANGED <<permitVars, loadVars, listVars>>

\* mod.rs 161-166: the planner returned an error.
QueryPlanFailed(q) ==
    /\ pc[q] = "plan_returned"
    /\ planOutcome[q] \in PlanErrors
    /\ tokenHist' = [tokenHist EXCEPT ![q] = TokenFail(@)]
    /\ completed' = Append(completed, q)
    /\ result' = [result EXCEPT ![q] =
                     [kind |-> "QueryPlanning", arg |-> planOutcome[q]]]
    /\ pc' = [pc EXCEPT ![q] = "done"]
    /\ UNCHANGED <<catalog, qdb, queryLog, pushed, numQueries, plannerCalls,
                   planOutcome, execOutcome, execStarted, streamErr>>
    /\ UNCHANGED <<logSize, tables, qschema>>
    /\ UNCHANGED <<permitVars, loadVars, listVars>>

\* mod.rs 162, 168: the planner returned a plan.
QueryPlanned(q) ==
    /\ pc[q] = "plan_returned"
    /\ planOutcome[q] = "ok"
    /\ tokenHist' = [tokenHist EXCEPT ![q] = TokenPlanned(@)]
    /\ pc' = [pc EXCEPT ![q] = "planned"]
    /\ UNCHANGED <<catalog, qdb, result, queryLog, pushed, numQueries,
                   plannerCalls, planOutcome, execOutcome, execStarted,
                   streamErr>>
    /\ UNCHANGED <<logSize, tables, qschema, completed>>
    /\ UNCHANGED <<permitVars, loadVars, listVars>>

\* Faulty variant: the query goes on to execution without token.permit().
QueryPermitSkipped(q) ==
    /\ pc[q] = "planned"
    /\ pc' = [pc EXCEPT ![q] = "permitted"]
    /\ UNCHANGED <<catalog, qdb, result, tokenHist, queryLog, pushed,
                   numQueries, plannerCalls, planOutcome, execOutcome,
                   execStarted, streamErr>>
    /\ UNCHANGED <<logSize, tables, qschema, completed>>
    /\ UNCHANGED <<permitVars, loadVars, listVars>>

\* mod.rs 170-171: token.permit(), with no semaphore acquisition before it.
QueryPermit(q) ==
    /\ pc[q] = "planned"
    /\ tokenHist' = [tokenHist EXCEPT ![q] = TokenPermit(@)]
    /\ pc' = [pc EXCEPT ![q] = "permitted"]
    /\ UNCHANGED <<catalog, qdb, result, queryLog, pushed, numQueries,
                   plannerCalls, planOutcome, execOutcome, execStarted,
                   streamErr>>
    /\ UNCHANGED <<logSize, tables, qschema, completed>>
    /\ UNCHANGED <<permitVars, loadVars, listVars>>

\* Faulty variant: execution starts without the counter being updated.
QueryCountSkipped(q) ==
    /\ pc[q] = "permitted"
    /\ execStarted' = [execStarted EXCEPT ![q] = TRUE]
    /\ pc' = [pc EXCEPT ![q] = "executing"]
    /\ UNCHANGED <<catalog, qdb, result, tokenHist, queryLog, pushed,
                   numQueries, plannerCalls, planOutcome, execOutcome,
                   streamErr>>
    /\ UNCHANGED <<logSize, tables, qschema, completed>>
    /\ UNCHANGED <<permitVars, loadVars, listVars>>

\* mod.rs 173-175: count the query, then start executing the plan.
QueryCount(q) ==
    /\ pc[q] = "permitted"
    /\ numQueries' = numQueries + 1
    /\ execStarted' = [execStarted EXCEPT ![q] = TRUE]
    /\ pc' = [pc EXCEPT ![q] = "executing"]
    /\ UNCHANGED <<catalog, qdb, result, tokenHist, queryLog, pushed,
                   plannerCalls, planOutcome, execOutcome, streamErr>>
    /\ UNCHANGED <<logSize, tables, qschema, completed>>
    /\ UNCHANGED <<permitVars, loadVars, listVars>>

\* mod.rs 175: ctx.execute_stream returns a stream or an error.
ExecReturns(q, o) ==
    /\ pc[q] = "executing"
    /\ execOutcome' = [execOutcome EXCEPT ![q] = o]
    /\ pc' = [pc EXCEPT ![q] = "exec_returned"]
    /\ UNCHANGED <<catalog, qdb, result, tokenHist, queryLog, pushed,
                   numQueries, plannerCalls, planOutcome, execStarted,
                   streamErr>>
    /\ UNCHANGED <<logSize, tables, qschema, completed>>
    /\ UNCHANGED <<permitVars, loadVars, listVars>>

\* Faulty variant: marking the entry terminal moves it to the back of the
\* log.
QueryExecOkReorders(q) ==
    /\ pc[q] = "exec_returned"
    /\ execOutcome[q] = "ok"
    /\ tokenHist' = [tokenHist EXCEPT ![q] = TokenSuccess(@)]
    /\ completed' = Append(completed, q)
    /\ queryLog' =
          IF \E i \in DOMAIN queryLog : queryLog[i] = q
          THEN Append(SelectSeq(queryLog, LAMBDA e : e # q), q)
          ELSE queryLog
    /\ result' = [result EXCEPT ![q] = [kind |-> "Stream", arg |-> ""]]
    /\ pc' = [pc EXCEPT ![q] = "streaming"]
    /\ UNCHANGED <<catalog, qdb, pushed, numQueries, plannerCalls,
                   planOutcome, execOutcome, execStarted, streamErr>>
    /\ UNCHANGED <<logSize, tables, qschema>>
    /\ UNCHANGED <<permitVars, loadVars, listVars>>

\* Faulty variant: the stream is handed back without token.success().
QueryExecOkUnmarked(q) ==
    /\ pc[q] = "exec_returned"
    /\ execOutcome[q] = "ok"
    /\ result' = [result EXCEPT ![q] = [kind |-> "Stream", arg |-> ""]]
    /\ pc' = [pc EXCEPT ![q] = "streaming"]
    /\ UNCHANGED <<catalog, qdb, tokenHist, queryLog, pushed, numQueries,
                   plannerCalls, planOutcome, execOutcome, execStarted,
                   streamErr>>
    /\ UNCHANGED <<logSize, tables, qschema, completed>>
    /\ UNCHANGED <<permitVars, loadVars, listVars>>

\* mod.rs 176-179: the stream was established.
QueryExecOk(q) ==
    /\ pc[q] = "exec_returned"
    /\ execOutcome[q] = "ok"
    /\ tokenHist' = [tokenHist EXCEPT ![q] = TokenSuccess(@)]
    /\ completed' = Append(completed, q)
    /\ result' = [result EXCEPT ![q] = [kind |-> "Stream", arg |-> ""]]
    /\ pc' = [pc EXCEPT ![q] = "streaming"]
    /\ UNCHANGED <<catalog, qdb, queryLog, pushed, numQueries, plannerCalls,
                   planOutcome, execOutcome, execStarted, streamErr>>
    /\ UNCHANGED <<logSize, tables, qschema>>
    /\ UNCHANGED <<permitVars, loadVars, listVars>>

\* Faulty variant: the ExecuteStream error is returned without token.fail().
QueryExecFailedUnmarked(q) ==
    /\ pc[q] = "exec_returned"
    /\ execOutcome[q] \in ExecErrors
    /\ result' = [result EXCEPT ![q] =
                     [kind |-> "ExecuteStream", arg |-> execOutcome[q]]]
    /\ pc' = [pc EXCEPT ![q] = "done"]
    /\ UNCHANGED <<catalog, qdb, tokenHist, queryLog, pushed, numQueries,
                   plannerCalls, planOutcome, execOutcome, execStarted,
                   streamErr>>
    /\ UNCHANGED <<logSize, tables, qschema, completed>>
    /\ UNCHANGED <<permitVars, loadVars, listVars>>

\* mod.rs 180-183: establishing the stream failed.
QueryExecFailed(q) ==
    /\ pc[q] = "exec_returned"
    /\ execOutcome[q] \in ExecErrors
    /\ tokenHist' = [tokenHist EXCEPT ![q] = TokenFail(@)]
    /\ completed' = Append(completed, q)
    /\ result' = [result EXCEPT ![q] =
                     [kind |-> "ExecuteStream", arg |-> execOutcome[q]]]
    /\ pc' = [pc EXCEPT ![q] = "done"]
    /\ UNCHANGED <<catalog, qdb, queryLog, pushed, numQueries, plannerCalls,
                   planOutcome, execOutcome, execStarted, streamErr>>
    /\ UNCHANGED <<logSize, tables, qschema>>
    /\ UNCHANGED <<permitVars, loadVars, listVars>>

\* The caller consumes the returned stream to its end, or to an error.
StreamEnd(q, err) ==
    /\ pc[q] = "streaming"
    /\ streamErr' = [streamErr EXCEPT ![q] = err]
    /\ pc' = [pc EXCEPT ![q] = "done"]
    /\ UNCHANGED <<catalog, qdb, result, tokenHist, queryLog, pushed,
                   numQueries, plannerCalls, planOutcome, execOutcome,
                   execStarted>>
    /\ UNCHANGED <<logSize, tables, qschema, completed>>
    /\ UNCHANGED <<permitVars, loadVars, listVars>>

\* The caller drops the future of query() at an await point (planning,
\* execute_stream), or drops the returned stream.
QueryCancel(q) ==
    /\ pc[q] \in {"planning", "executing", "streaming"}
    /\ pc' = [pc EXCEPT ![q] = "cancelled"]
    /\ UNCHANGED <<catalog, qdb, result, tokenHist, queryLog, pushed,
                   numQueries, plannerCalls, planOutcome, execOutcome,
                   execStarted, streamErr>>
    /\ UNCHANGED <<logSize, tables, qschema, completed>>
    /\ UNCHANGED <<permitVars, loadVars, listVars>>

\* ---------------------------------------------------------------- semaphore
Holder(c) == <<"caller", c>>
EndReasons == {"success", "error", "cancelled"}

\* acquire_semaphore: the caller starts waiting for an owned permit.
AcquireSemaphore(c) ==
    /\ cpc[c] = "idle"
    /\ cpc' = [cpc EXCEPT ![c] = "waiting"]
    /\ UNCHANGED <<permitsAvailable, permitHolders, cend>>
    /\ UNCHANGED <<queryVars, loadVars, listVars>>

\* Faulty variant: a permit is handed out whether or not one is available.
PermitGrantedUnchecked(c) ==
    /\ cpc[c] = "waiting"
    /\ permitsAvailable' = IF permitsAvailable > 0 THEN permitsAvailable - 1
                           ELSE 0
    /\ permitHolders' = permitHolders \cup {Holder(c)}
    /\ cpc' = [cpc EXCEPT ![c] = "holding"]
    /\ UNCHANGED cend
    /\ UNCHANGED <<queryVars, loadVars, listVars>>

\* acquire_owned(..).await completes: one permit moves to the caller.
PermitGranted(c) ==
    /\ cpc[c] = "waiting"
    /\ permitsAvailable > 0
    /\ permitsAvailable' = permitsAvailable - 1
    /\ permitHolders' = permitHolders \cup {Holder(c)}
    /\ cpc' = [cpc EXCEPT ![c] = "holding"]
    /\ UNCHANGED cend
    /\ UNCHANGED <<queryVars, loadVars, listVars>>

\* The holder's scope ends (success, error or cancellation): the owned
\* permit is dropped and returns to the semaphore.
PermitDropped(c, why) ==
    /\ cpc[c] = "holding"
    /\ permitsAvailable' = permitsAvailable + 1
    /\ permitHolders' = permitHolders \ {Holder(c)}
    /\ cpc' = [cpc EXCEPT ![c] = "ended"]
    /\ cend' = [cend EXCEPT ![c] = why]
    /\ UNCHANGED <<queryVars, loadVars, listVars>>

\* The caller is cancelled while it waits: it never got a permit.
AcquireCancelled(c) ==
    /\ cpc[c] = "waiting"
    /\ cpc' = [cpc EXCEPT ![c] = "ended"]
    /\ cend' = [cend EXCEPT ![c] = "cancelled"]
    /\ UNCHANGED <<permitsAvailable, permitHolders>>
    /\ UNCHANGED <<queryVars, loadVars, listVars>>

\* ---------------------------------------------------------------- chunk
\* CatalogChunk::set_loading_to_read_buffer: accepted for a persisted chunk
\* without a read-buffer copy and with no lifecycle action in progress.
SetLoadingAccepted ==
    /\ lifecycleAction = 0
    /\ stage = "ObjectStoreOnly"

\* CatalogChunk::set_loaded_to_read_buffer: accepted for a persisted chunk
\* that is being loaded.
SetLoadedAccepted(p) ==
    /\ lifecycleAction = p
    /\ stage = "ObjectStoreOnly"

\* DbChunk::snapshot + the single-chunk compact plan: the rows of the
\* object-store copy that no delete predicate removes.
ReorgRows == osRows \ deletePreds

\* The chunk's reader-writer lock: a write guard is granted when nobody holds
\* a guard, a read guard when nobody holds the write guard.
WriteFree == chunkWriter = {} /\ chunkReaders = {}
ReadFree == chunkWriter = {}

\* The caller takes the chunk's write guard (load.rs 113: chunk.write()).
LockChunk(p) ==
    /\ lpc[p] = "idle"
    /\ WriteFree
    /\ chunkWriter' = chunkWriter \cup {p}
    /\ lpc' = [lpc EXCEPT ![p] = "guarded"]
    /\ UNCHANGED <<stage, lifecycleAction, chunkReaders, seen, osRows, rbRows,
                   rbPresent, deletePreds, lres, job, jobsRegistered,
                   snapshot>>
    /\ UNCHANGED <<queryVars, permitVars, listVars>>

\* Faulty variant: the job is registered only once the Loading transition
\* was accepted.
LoadChunkRegistersLate(p) ==
    /\ lpc[p] = "guarded"
    /\ p \in chunkWriter
    /\ chunkWriter' = chunkWriter \ {p}
    /\ IF SetLoadingAccepted
       THEN /\ jobsRegistered' = jobsRegistered + 1
            /\ lifecycleAction' = p
            /\ snapshot' = [snapshot EXCEPT ![p] = ReorgRows]
            /\ job' = [job EXCEPT ![p] = "running"]
            /\ lpc' = [lpc EXCEPT ![p] = "future"]
            /\ UNCHANGED lres
       ELSE /\ lres' = [lres EXCEPT ![p] = "Rejected"]
            /\ lpc' = [lpc EXCEPT ![p] = "done"]
            /\ UNCHANGED <<lifecycleAction, snapshot, job, jobsRegistered>>
    /\ UNCHANGED <<stage, chunkReaders, seen, osRows, rbRows, rbPresent,
                   deletePreds>>
    /\ UNCHANGED <<queryVars, permitVars, listVars>>

\* Faulty variant: the error of set_loading_to_read_buffer is ignored.
LoadChunkIgnoresRejection(p) ==
    /\ lpc[p] = "guarded"
    /\ p \in chunkWriter
    /\ jobsRegistered' = jobsRegistered + 1
    /\ chunkWriter' = chunkWriter \ {p}
    /\ lifecycleAction' = IF SetLoadingAccepted THEN p ELSE lifecycleAction
    /\ snapshot' = [snapshot EXCEPT ![p] = ReorgRows]
    /\ job' = [job EXCEPT ![p] = "running"]
    /\ lpc' = [lpc EXCEPT ![p] = "future"]
    /\ UNCHANGED <<stage, chunkReaders, seen, osRows, rbRows, rbPresent,
                   deletePreds, lres>>
    /\ UNCHANGED <<queryVars, permitVars, listVars>>

\* Faulty variant: the guard is moved into the future instead of being
\* dropped at line 41.
LoadChunkKeepsGuard(p) ==
    /\ lpc[p] = "guarded"
    /\ p \in chunkWriter
    /\ jobsRegistered' = jobsRegistered + 1
    /\ IF SetLoadingAccepted
       THEN /\ lifecycleAction' = p
            /\ snapshot' = [snapshot EXCEPT ![p] = ReorgRows]
            /\ job' = [job EXCEPT ![p] = "running"]
            /\ lpc' = [lpc EXCEPT ![p] = "future"]
            /\ UNCHANGED <<lres, chunkWriter>>
       ELSE /\ lres' = [lres EXCEPT ![p] = "Rejected"]
            /\ job' = [job EXCEPT ![p] = "complete"]
            /\ lpc' = [lpc EXCEPT ![p] = "done"]
            /\ chunkWriter' = chunkWriter \ {p}
            /\ UNCHANGED <<lifecycleAction, snapshot>>
    /\ UNCHANGED <<stage, chunkReaders, seen, osRows, rbRows, rbPresent,
                   deletePreds>>
    /\ UNCHANGED <<queryVars, permitVars, listVars>>

\* load.rs 27-43, 74: register the job, set the chunk to loading, snapshot
\* it and drop the guard; on rejection the guard and the registration are
\* dropped with the early return.
LoadChunk(p) ==
    /\ lpc[p] = "guarded"
    /\ p \in chunkWriter
    /\ jobsRegistered' = jobsRegistered + 1
    /\ chunkWriter' = chunkWriter \ {p}
    /\ IF SetLoadingAccepted
       THEN /\ lifecycleAction' = p
            /\ snapshot' = [snapshot EXCEPT ![p] = ReorgRows]
            /\ job' = [job EXCEPT ![p] = "running"]
            /\ lpc' = [lpc EXCEPT ![p] = "future"]
            /\ UNCHANGED lres
       ELSE /\ lres' = [lres EXCEPT ![p] = "Rejected"]
            /\ job' = [job EXCEPT ![p] = "complete"]
            /\ lpc' = [lpc EXCEPT ![p] = "done"]
            /\ UNCHANGED <<lifecycleAction, snapshot>>
    /\ UNCHANGED <<stage, chunkReaders, seen, osRows, rbRows, rbPresent,
                   deletePreds>>
    /\ UNCHANGED <<queryVars, permitVars, listVars>>

\* load.rs 49-62: planning, preparing, executing or collecting the reorg
\* plan returns an error.
FutReorgFailed(p) ==
    /\ lpc[p] = "future"
    /\ lres' = [lres EXCEPT ![p] = "ReorgError"]
    /\ job' = [job EXCEPT ![p] = "complete"]
    /\ lpc' = [lpc EXCEPT ![p] = "done"]
    /\ UNCHANGED <<stage, lifecycleAction, chunkWriter, chunkReaders, seen,
                   osRows, rbRows, rbPresent, deletePreds, jobsRegistered,
                   snapshot>>
    /\ UNCHANGED <<queryVars, permitVars, listVars>>

\* Faulty variant: an empty result is committed like any other.
FutCollectKeepsEmpty(p) ==
    /\ lpc[p] = "future"
    /\ lpc' = [lpc EXCEPT ![p] = "collected"]
    /\ UNCHANGED <<stage, lifecycleAction, chunkWriter, chunkReaders, seen,
                   osRows, rbRows, rbPresent, deletePreds, lres, job,
                   jobsRegistered, snapshot>>
    /\ UNCHANGED <<queryVars, permitVars, listVars>>

\* load.rs 57-65: collect_rub returns; an empty result fails the future.
FutCollect(p) ==
    /\ lpc[p] = "future"
    /\ IF snapshot[p] = {}
       THEN /\ lres' = [lres EXCEPT ![p] = "CannotLoadEmptyChunk"]
            /\ job' = [job EXCEPT ![p] = "complete"]
            /\ lpc' = [lpc EXCEPT ![p] = "done"]
       ELSE /\ lpc' = [lpc EXCEPT ![p] = "collected"]
            /\ UNCHANGED <<lres, job>>
    /\ UNCHANGED <<stage, lifecycleAction, chunkWriter, chunkReaders, seen,
                   osRows, rbRows, rbPresent, deletePreds, jobsRegistered,
                   snapshot>>
    /\ UNCHANGED <<queryVars, permitVars, listVars>>

\* Faulty variant: the write guard is handed out without waiting for the
\* guards already out.
FutLockNoWait(p) ==
    /\ lpc[p] = "collected"
    /\ chunkWriter' = chunkWriter \cup {p}
    /\ lpc' = [lpc EXCEPT ![p] = "committing"]
    /\ UNCHANGED <<stage, lifecycleAction, chunkReaders, seen, osRows, rbRows,
                   rbPresent, deletePreds, lres, job, jobsRegistered,
                   snapshot>>
    /\ UNCHANGED <<queryVars, permitVars, listVars>>

\* load.rs 67-68: the future takes the chunk's write guard again
\* (chunk.write()).
FutLock(p) ==
    /\ lpc[p] = "collected"
    /\ WriteFree
    /\ chunkWriter' = chunkWriter \cup {p}
    /\ lpc' = [lpc EXCEPT ![p] = "committing"]
    /\ UNCHANGED <<stage, lifecycleAction, chunkReaders, seen, osRows, rbRows,
                   rbPresent, deletePreds, lres, job, jobsRegistered,
                   snapshot>>
    /\ UNCHANGED <<queryVars, permitVars, listVars>>

\* Faulty variant: the commit installs an empty read-buffer copy.
FutCommitEmpty(p) ==
    /\ lpc[p] = "committing"
    /\ p \in chunkWriter
    /\ IF SetLoadedAccepted(p)
       THEN /\ stage' = "ReadBufferAndObjectStore"
            /\ rbRows' = {}
            /\ rbPresent' = TRUE
            /\ lifecycleAction' = 0
            /\ lres' = [lres EXCEPT ![p] = "Ok"]
       ELSE /\ lres' = [lres EXCEPT ![p] = "UnexpectedState"]
            /\ UNCHANGED <<stage, rbRows, rbPresent, lifecycleAction>>
    /\ chunkWriter' = chunkWriter \ {p}
    /\ job' = [job EXCEPT ![p] = "complete"]
    /\ lpc' = [lpc EXCEPT ![p] = "done"]
    /\ UNCHANGED <<chunkReaders, seen, osRows, deletePreds, jobsRegistered,
                   snapshot>>
    /\ UNCHANGED <<queryVars, permitVars, listVars>>

\* load.rs 67-71: commit the read-buffer copy under the write guard; the
\* guard is a temporary and is dropped at the end of the statement.
FutCommit(p) ==
    /\ lpc[p] = "committing"
    /\ p \in chunkWriter
    /\ IF SetLoadedAccepted(p)
       THEN /\ stage' = "ReadBufferAndObjectStore"
            /\ rbRows' = snapshot[p]
            /\ rbPresent' = TRUE
            /\ lifecycleAction' = 0
            /\ lres' = [lres EXCEPT ![p] = "Ok"]
       ELSE /\ lres' = [lres EXCEPT ![p] = "UnexpectedState"]
            /\ UNCHANGED <<stage, rbRows, rbPresent, lifecycleAction>>
    /\ chunkWriter' = chunkWriter \ {p}
    /\ job' = [job EXCEPT ![p] = "complete"]
    /\ lpc' = [lpc EXCEPT ![p] = "done"]
    /\ UNCHANGED <<chunkReaders, seen, osRows, deletePreds, jobsRegistered,
                   snapshot>>
    /\ UNCHANGED <<queryVars, permitVars, listVars>>

\* Db::unload_read_buffer (load.rs 105): drop the read-buffer copy of a
\* persisted chunk.
UnloadReadBuffer ==
    /\ stage = "ReadBufferAndObjectStore"
    /\ lifecycleAction = 0
    /\ WriteFree
    /\ stage' = "ObjectStoreOnly"
    /\ rbRows' = {}
    /\ rbPresent' = FALSE
    /\ UNCHANGED <<lifecycleAction, chunkWriter, chunkReaders, seen, osRows,
                   deletePreds, lpc, lres, job, jobsRegistered, snapshot>>
    /\ UNCHANGED <<queryVars, permitVars, listVars>>

\* A delete predicate is added to the chunk.
AddDeletePredicate(r) ==
    /\ r \notin deletePreds
    /\ WriteFree
    /\ deletePreds' = deletePreds \cup {r}
    /\ UNCHANGED <<stage, lifecycleAction, chunkWriter, chunkReaders, seen,
                   osRows, rbRows, rbPresent, lpc, lres, job, jobsRegistered,
                   snapshot>>
    /\ UNCHANGED <<queryVars, permitVars, listVars>>

\* db.chunk_summaries() (load.rs 100-102, 107-109, 115-117): the table's
\* chunks with their storage; unloading and loading neither add nor remove
\* a chunk.
ChunkSummaries == <<[storage |-> stage]>>

\* run_query(db, "select * from cpu") (load.rs 119): the rows of the copy
\* that is queried, without those a delete predicate removes.
RunQuery == (IF rbPresent THEN rbRows ELSE osRows) \ deletePreds

\* What a reader finds when it looks at the chunk under a read guard: its
\* stage, whether a load is in progress, and the copy a query would scan.
NoView == [stage |-> "none", loading |-> FALSE, copy |-> "none"]
ChunkView ==
    [stage |-> stage,
     loading |-> lifecycleAction # 0,
     copy |-> IF rbPresent THEN "read_buffer" ELSE "object_store"]

\* A concurrent query takes a read guard on the chunk and looks at it.
ReadChunk(r) ==
    /\ r \notin chunkReaders
    /\ ReadFree
    /\ chunkReaders' = chunkReaders \cup {r}
    /\ seen' = [seen EXCEPT ![r] = ChunkView]
    /\ UNCHANGED <<stage, lifecycleAction, chunkWriter, osRows, rbRows,
                   rbPresent, deletePreds, lpc, lres, job, jobsRegistered,
                   snapshot>>
    /\ UNCHANGED <<queryVars, permitVars, listVars>>

\* The query is done with the chunk and drops its read guard.
ReadDone(r) ==
    /\ r \in chunkReaders
    /\ chunkReaders' = chunkReaders \ {r}
    /\ seen' = [seen EXCEPT ![r] = NoView]
    /\ UNCHANGED <<stage, lifecycleAction, chunkWriter, osRows, rbRows,
                   rbPresent, deletePreds, lpc, lres, job, jobsRegistered,
                   snapshot>>
    /\ UNCHANGED <<queryVars, permitVars, listVars>>

\* ---------------------------------------------------------------- names
\* Strings are sequences of byte values, so that splitting and ordering are
\* computed on their characters.
Names == UNION {[1..k -> Alphabet] : k \in 1..MaxNameLen}

\* &str Ord: byte-wise lexicographic order.
RECURSIVE StrLess(_, _)
StrLess(a, b) ==
    IF b = <<>> THEN FALSE
    ELSE IF a = <<>> THEN TRUE
    ELSE IF a[1] # b[1] THEN a[1] < b[1]
    ELSE StrLess(Tail(a), Tail(b))

\* str::split('/') (mod.rs 330): the pieces between separators, in order; a
\* string without separator is its own single piece.
RECURSIVE SplitPieces(_)
SplitPieces(s) ==
    IF \A i \in DOMAIN s : s[i] # Slash THEN <<s>>
    ELSE LET i == CHOOSE k \in DOMAIN s :
                      s[k] = Slash /\ \A j \in 1..(k - 1) : s[j] # Slash
         IN <<SubSeq(s, 1, i - 1)>> \o SplitPieces(SubSeq(s, i + 1, Len(s)))

\* Faulty variant: a name without separator gets an empty policy name.
SplitDatabaseNameNoDefault(db_name) ==
    LET split == SplitPieces(db_name)
    IN <<split[1], IF Len(split) >= 2 THEN split[2] ELSE <<>>>>

\* split_database_name (mod.rs 329-335): the first piece, and the second
\* piece or "autogen" when there is none.
SplitDatabaseName(db_name) ==
    LET split == SplitPieces(db_name)
    IN <<split[1], IF Len(split) >= 2 THEN split[2] ELSE Autogen>>

NoSplit == <<>>

\* A call of split_database_name on the chosen name.
SplitCall ==
    /\ splitOut = NoSplit
    /\ splitOut' = SplitDatabaseName(splitIn)
    /\ UNCHANGED <<splitIn, dbList, showOut, rpPc, rpArg, rpTodo, rpRows,
                   rpOut>>
    /\ UNCHANGED <<rpListed, scanIn, scans>>
    /\ UNCHANGED <<queryVars, permitVars, loadVars>>

\* ---------------------------------------------------------------- listings
\* The catalog as the listing calls see it: its databases, in the order the
\* catalog's map yields them.
DbEntries == [name : CatNames, deleted : BOOLEAN]
Catalogs ==
    {c \in UNION {[1..k -> DbEntries] : k \in 0..MaxDbs} :
        \A i, j \in DOMAIN c : i # j => c[i].name # c[j].name}

\* Catalog::list_db_schema and Catalog::db_names.
ListDbSchema == dbList
DbNames == [i \in DOMAIN dbList |-> dbList[i].name]

\* Faulty variant: databases compared by name alone.
DbLessByName(a, b) == StrLess(a.name, b.name)

\* The comparator of mod.rs 193-196: deleted first (false before true), then
\* name.
DbLess(a, b) ==
    IF a.deleted # b.deleted THEN ~a.deleted /\ b.deleted
    ELSE StrLess(a.name, b.name)

\* sort_unstable_by with DbLess (mod.rs 193): insertion into a sorted prefix.
RECURSIVE InsertDb(_, _)
InsertDb(x, s) ==
    IF s = <<>> THEN <<x>>
    ELSE IF DbLess(x, s[1]) THEN <<x>> \o s
    ELSE <<s[1]>> \o InsertDb(x, Tail(s))

RECURSIVE SortDbs(_)
SortDbs(s) == IF s = <<>> THEN <<>> ELSE InsertDb(s[1], SortDbs(Tail(s)))

\* Faulty variant: the names are left in the order the catalog gave them.
KeepOrder(s) == s

\* sort_unstable on the names (mod.rs 237).
RECURSIVE InsertName(_, _)
InsertName(x, s) ==
    IF s = <<>> THEN <<x>>
    ELSE IF StrLess(x, s[1]) THEN <<x>> \o s
    ELSE <<s[1]>> \o InsertName(x, Tail(s))

RECURSIVE SortNames(_)
SortNames(s) == IF s = <<>> THEN <<>> ELSE InsertName(s[1], SortNames(Tail(s)))

\* show_databases (mod.rs 187-224): sort, drop the deleted ones unless asked
\* for, one column of names and, when asked for, one of deleted flags.
ShowDatabasesBatch(include_deleted) ==
    LET sorted == SortDbs(ListDbSchema)
        databases == IF include_deleted THEN sorted
                     ELSE SelectSeq(sorted, LAMBDA db : ~db.deleted)
    IN [fields |-> IF include_deleted THEN <<"iox::database", "deleted">>
                   ELSE <<"iox::database">>,
        rows |-> [i \in DOMAIN databases |->
                     IF include_deleted
                     THEN <<databases[i].name, databases[i].deleted>>
                     ELSE <<databases[i].name>>]]

NoBatch == [fields |-> <<>>, rows |-> <<>>]

ShowDatabases(include_deleted) ==
    /\ showOut[include_deleted] = NoBatch
    /\ showOut' = [showOut EXCEPT ![include_deleted] =
                      ShowDatabasesBatch(include_deleted)]
    /\ UNCHANGED <<splitIn, splitOut, dbList, rpPc, rpArg, rpTodo, rpRows,
                   rpOut>>
    /\ UNCHANGED <<rpListed, scanIn, scans>>
    /\ UNCHANGED <<queryVars, permitVars, loadVars>>

\* Database::retention_time_ns (mod.rs 441-443): always None.
RetentionTimeNs == "null"

NoArg == <<>>
NoOut == [kind |-> "none", arg |-> <<>>, rows |-> <<>>]

\* mod.rs 231-239: the databases to report, sorted.
ShowRetentionPolicies(database) ==
    /\ rpPc = "idle"
    /\ rpArg' = database
    /\ rpTodo' = SortNames(IF database # NoArg THEN <<database>> ELSE DbNames)
    /\ rpListed' = rpTodo'
    /\ rpRows' = <<>>
    /\ rpPc' = "loop"
    /\ UNCHANGED <<splitIn, splitOut, dbList, showOut, rpOut>>
    /\ UNCHANGED <<scanIn, scans>>
    /\ UNCHANGED <<queryVars, permitVars, loadVars>>

\* A database is removed from the catalog: its name no longer resolves.
RemoveDatabase(i) ==
    /\ i \in DOMAIN dbList
    /\ dbList' = SubSeq(dbList, 1, i - 1) \o SubSeq(dbList, i + 1, Len(dbList))
    /\ UNCHANGED <<splitIn, splitOut, showOut, rpPc, rpArg, rpTodo, rpRows,
                   rpOut>>
    /\ UNCHANGED <<rpListed, scanIn, scans>>
    /\ UNCHANGED <<queryVars, permitVars, loadVars>>

\* Faulty variant: a name that does not resolve is skipped.
RpResolveSkipsMissing ==
    /\ rpPc = "loop"
    /\ rpTodo # <<>>
    /\ LET database == Head(rpTodo)
           split == SplitDatabaseName(database)
       IN IF \E i \in DOMAIN dbList : dbList[i].name = database
          THEN rpRows' = Append(rpRows, [database |-> split[1],
                                         name |-> split[2],
                                         duration |-> RetentionTimeNs])
          ELSE rpRows' = rpRows
    /\ rpTodo' = Tail(rpTodo)
    /\ UNCHANGED <<rpPc, rpOut>>
    /\ UNCHANGED <<splitIn, splitOut, dbList, showOut, rpArg>>
    /\ UNCHANGED <<rpListed, scanIn, scans>>
    /\ UNCHANGED <<queryVars, permitVars, loadVars>>

\* mod.rs 240-257: one iteration: resolve the database, or fail the call
\* with DatabaseNotFound; push its row.
RpResolve ==
    /\ rpPc = "loop"
    /\ rpTodo # <<>>
    /\ LET database == Head(rpTodo)
           split == SplitDatabaseName(database)
       IN IF \E i \in DOMAIN dbList : dbList[i].name = database
          THEN /\ rpRows' = Append(rpRows, [database |-> split[1],
                                            name |-> split[2],
                                            duration |-> RetentionTimeNs])
               /\ rpTodo' = Tail(rpTodo)
               /\ UNCHANGED <<rpPc, rpOut>>
          ELSE /\ rpOut' = [kind |-> "DatabaseNotFound", arg |-> database,
                            rows |-> <<>>]
               /\ rpPc' = "done"
               /\ UNCHANGED <<rpRows, rpTodo>>
    /\ UNCHANGED <<splitIn, splitOut, dbList, showOut, rpArg>>
    /\ UNCHANGED <<rpListed, scanIn, scans>>
    /\ UNCHANGED <<queryVars, permitVars, loadVars>>

\* mod.rs 259-260: the rows are returned as one batch.
RpReturn ==
    /\ rpPc = "loop"
    /\ rpTodo = <<>>
    /\ rpOut' = [kind |-> "Batch", arg |-> <<>>, rows |-> rpRows]
    /\ rpPc' = "done"
    /\ UNCHANGED <<splitIn, splitOut, dbList, showOut, rpArg, rpTodo, rpRows>>
    /\ UNCHANGED <<rpListed, scanIn, scans>>
    /\ UNCHANGED <<queryVars, permitVars, loadVars>>

\* ---------------------------------------------------------------- scan
\* The arguments of a scan call and the table it is made on.
ScanInputs ==
    [db : {"foo"}, table : TableNamesSet, projection : Projections,
     filters : FilterSets, limit : Limits]

NoRequest == [db |-> "", table |-> "", filters |-> {}, projection |-> ""]
NoArgs == [projection |-> "", filters |-> {}, limit |-> <<>>]
NewScan ==
    [pc |-> "start", request |-> NoRequest, chunks |-> "none",
     build |-> "none", providerArgs |-> NoArgs, out |-> "none"]

\* Faulty variant: the limit is handed to the chunk provider as one more
\* filter.
ChunksRequestPruned(in) ==
    [db |-> in.db, table |-> in.table,
     filters |-> in.filters \cup (IF in.limit = <<>> THEN {} ELSE {"limit"}),
     projection |-> in.projection]

\* QueryTable::chunks (mod.rs 562-576): what get_table_chunks is asked for;
\* _limit is not used.
ChunksRequest(in) ==
    [db |-> in.db, table |-> in.table, filters |-> in.filters,
     projection |-> in.projection]

\* mod.rs 614: self.chunks(...)?: the provider's error is returned by scan.
ScanChunks(s, res) ==
    /\ scans[s].pc = "start"
    /\ scans' = [scans EXCEPT ![s] =
                    [@ EXCEPT !.request = ChunksRequest(scanIn[s]),
                              !.chunks = res,
                              !.pc = IF res = "ok" THEN "build" ELSE "done",
                              !.out = IF res = "ok" THEN "none" ELSE "Err"]]
    /\ UNCHANGED <<scanIn, splitIn, splitOut, dbList, showOut, rpPc, rpArg,
                   rpTodo, rpRows, rpOut, rpListed>>
    /\ UNCHANGED <<queryVars, permitVars, loadVars>>

\* Faulty variant: a failed build is returned as an error of scan.
ScanBuildReturnsError(s, res) ==
    /\ scans[s].pc = "build"
    /\ scans' = [scans EXCEPT ![s] =
                    IF res = "ok"
                    THEN [@ EXCEPT !.build = res, !.pc = "provider",
                                   !.providerArgs =
                                       [projection |-> scanIn[s].projection,
                                        filters |-> scanIn[s].filters,
                                        limit |-> scanIn[s].limit]]
                    ELSE [@ EXCEPT !.build = res, !.pc = "done",
                                   !.out = "Err"]]
    /\ UNCHANGED <<scanIn, splitIn, splitOut, dbList, showOut, rpPc, rpArg,
                   rpTodo, rpRows, rpOut, rpListed>>
    /\ UNCHANGED <<queryVars, permitVars, loadVars>>

\* mod.rs 615-626: the chunks are added to the builder; a builder that fails
\* to build panics, one that builds is asked to scan with the arguments of
\* the call.
ScanBuild(s, res) ==
    /\ scans[s].pc = "build"
    /\ scans' = [scans EXCEPT ![s] =
                    IF res = "ok"
                    THEN [@ EXCEPT !.build = res, !.pc = "provider",
                                   !.providerArgs =
                                       [projection |-> scanIn[s].projection,
                                        filters |-> scanIn[s].filters,
                                        limit |-> scanIn[s].limit]]
                    ELSE [@ EXCEPT !.build = res, !.pc = "panicked",
                                   !.out = "panic"]]
    /\ UNCHANGED <<scanIn, splitIn, splitOut, dbList, showOut, rpPc, rpArg,
                   rpTodo, rpRows, rpOut, rpListed>>
    /\ UNCHANGED <<queryVars, permitVars, loadVars>>

\* mod.rs 626: provider.scan(...).await: its plan or its error is what scan
\* returns.
ScanProviderReturns(s, res) ==
    /\ scans[s].pc = "provider"
    /\ scans' = [scans EXCEPT ![s] =
                    [@ EXCEPT !.pc = "done",
                              !.out = IF res = "ok" THEN "Plan" ELSE "Err"]]
    /\ UNCHANGED <<scanIn, splitIn, splitOut, dbList, showOut, rpPc, rpArg,
                   rpTodo, rpRows, rpOut, rpListed>>
    /\ UNCHANGED <<queryVars, permitVars, loadVars>>

\* ---------------------------------------------------------------- init
CoreInit ==
    /\ catalog = [n \in AllNames |-> IF n = "foo" THEN "live" ELSE "absent"]
    /\ tables = [n \in AllNames |-> {}]
    /\ logSize \in 1..MaxLogSize
    /\ qschema = [q \in Queries |-> NoSchema]
    /\ completed = <<>>
    /\ pc = [q \in Queries |-> "idle"]
    /\ qdb = [q \in Queries |-> ""]
    /\ result = [q \in Queries |-> NoResult]
    /\ tokenHist = [q \in Queries |-> <<>>]
    /\ queryLog = <<>>
    /\ pushed = <<>>
    /\ numQueries = 0
    /\ plannerCalls = [q \in Queries |-> 0]
    /\ planOutcome = [q \in Queries |-> "none"]
    /\ execOutcome = [q \in Queries |-> "none"]
    /\ execStarted = [q \in Queries |-> FALSE]
    /\ streamErr = [q \in Queries |-> FALSE]
    /\ permitsAvailable = MaxPermits
    /\ permitHolders = {}
    /\ cpc = [c \in Callers |-> "idle"]
    /\ cend = [c \in Callers |-> "none"]
    /\ stage = "ReadBufferAndObjectStore"
    /\ lifecycleAction = 0
    /\ chunkWriter = {}
    /\ chunkReaders = {}
    /\ seen = [r \in Readers |-> NoView]
    /\ osRows = Rows
    /\ rbRows = Rows
    /\ rbPresent = TRUE
    /\ deletePreds = {}
    /\ lpc = [p \in Loaders |-> "idle"]
    /\ lres = [p \in Loaders |-> "none"]
    /\ job = [p \in Loaders |-> "none"]
    /\ jobsRegistered = 0
    /\ snapshot = [p \in Loaders |-> {}]

\* No listing call is under way and the catalog they would see is empty.
ListIdle ==
    /\ splitOut = NoSplit
    /\ showOut = [b \in BOOLEAN |-> NoBatch]
    /\ rpPc = "idle"
    /\ rpArg = NoArg
    /\ rpTodo = <<>>
    /\ rpRows = <<>>
    /\ rpOut = NoOut
    /\ rpListed = <<>>
    /\ scans = [s \in Scans |-> NewScan]

\* The arguments every scan call has when none is being looked at.
ScanDefault ==
    scanIn = [s \in Scans |-> [db |-> "foo", table |-> "cpu",
                               projection |-> "None", filters |-> {},
                               limit |-> <<>>]]

Init ==
    /\ CoreInit
    /\ ListIdle
    /\ ScanDefault
    /\ splitIn = <<>>
    /\ dbList = <<>>

\* split_database_name applied to any name.
SplitInit ==
    /\ CoreInit
    /\ logSize = MaxLogSize
    /\ ListIdle
    /\ splitIn \in Names
    /\ dbList = <<>>
    /\ ScanDefault

\* The listing calls applied to any catalog.
ListInit ==
    /\ CoreInit
    /\ logSize = MaxLogSize
    /\ ListIdle
    /\ splitIn = <<>>
    /\ dbList \in Catalogs
    /\ ScanDefault

\* scan applied to any arguments.
ScanInit ==
    /\ CoreInit
    /\ logSize = MaxLogSize
    /\ ListIdle
    /\ splitIn = <<>>
    /\ dbList = <<>>
    /\ scanIn \in [Scans -> ScanInputs]

QueryNext ==
    \/ \E n \in BaseNames : CreateDatabase(n)
    \/ \E n \in BaseNames : DeleteDatabase(n)
    \/ \E q \in Queries, db \in QueryNames : QueryStart(q, db)
    \/ \E q \in Queries, o \in {"ok"} \cup PlanErrors : PlannerReturns(q, o)
    \/ \E q \in Queries : QueryPlanFailed(q)
    \/ \E q \in Queries : QueryPlanned(q)
    \/ \E q \in Queries : QueryPermit(q)
    \/ \E q \in Queries : QueryCount(q)
    \/ \E q \in Queries : QueryExecOk(q)
    \/ \E q \in Queries, o \in {"ok"} \cup ExecErrors : ExecReturns(q, o)
    \/ \E q \in Queries : QueryExecFailed(q)
    \/ \E q \in Queries, err \in BOOLEAN : StreamEnd(q, err)
    \/ \E q \in Queries : QueryCancel(q)

Spec == Init /\ [][QueryNext]_vars

\* Outside the query path the size of the query log plays no part: one
\* executor, built with the largest size.
OneExecutor == Init /\ logSize = MaxLogSize

\* Queries against a catalog whose databases stay and whose tables come and
\* go.
SnapNext ==
    \/ \E n \in BaseNames, t \in TableNamesSet : AddTable(n, t)
    \/ \E n \in BaseNames, t \in TableNamesSet : DropTable(n, t)
    \/ \E q \in Queries, db \in QueryNames : QueryStart(q, db)
    \/ \E q \in Queries, o \in {"ok"} \cup PlanErrors : PlannerReturns(q, o)
    \/ \E q \in Queries : QueryPlanFailed(q)
    \/ \E q \in Queries : QueryPlanned(q)
    \/ \E q \in Queries : QueryPermit(q)
    \/ \E q \in Queries : QueryCount(q)
    \/ \E q \in Queries : QueryExecOk(q)
    \/ \E q \in Queries, o \in {"ok"} \cup ExecErrors : ExecReturns(q, o)
    \/ \E q \in Queries : QueryExecFailed(q)
    \/ \E q \in Queries, err \in BOOLEAN : StreamEnd(q, err)

SnapSpec == OneExecutor /\ [][SnapNext]_vars

PermitNext ==
    \/ \E c \in Callers : AcquireSemaphore(c)
    \/ \E c \in Callers : PermitGranted(c)
    \/ \E c \in Callers, why \in EndReasons : PermitDropped(c, why)
    \/ \E c \in Callers : AcquireCancelled(c)

PermitSpec == OneExecutor /\ [][PermitNext]_vars

LoadNext ==
    \/ \E p \in Loaders : LockChunk(p)
    \/ \E p \in Loaders : LoadChunk(p)
    \/ \E p \in Loaders : FutReorgFailed(p)
    \/ \E p \in Loaders : FutCollect(p)
    \/ \E p \in Loaders : FutLock(p)
    \/ \E p \in Loaders : FutCommit(p)
    \/ \E r \in Readers : ReadChunk(r)
    \/ \E r \in Readers : ReadDone(r)
    \/ UnloadReadBuffer
    \/ \E r \in Rows : AddDeletePredicate(r)

LoadSpec == OneExecutor /\ [][LoadNext]_vars

SplitNext == SplitCall

SplitSpec == SplitInit /\ [][SplitNext]_vars

ListNext ==
    \/ \E include_deleted \in BOOLEAN : ShowDatabases(include_deleted)
    \/ \E database \in {NoArg} \cup CatNames : ShowRetentionPolicies(database)
    \/ RpResolve
    \/ RpReturn

ListSpec == ListInit /\ [][ListNext]_vars

\* show_retention_policies(None) while databases are removed.
RpNext ==
    \/ ShowRetentionPolicies(NoArg)
    \/ RpResolve
    \/ RpReturn
    \/ \E i \in 1..MaxDbs : RemoveDatabase(i)

RpSpec == ListInit /\ [][RpNext]_vars

ScanNext ==
    \/ \E s \in Scans, res \in {"ok", "err"} : ScanChunks(s, res)
    \/ \E s \in Scans, res \in {"ok", "err"} : ScanBuild(s, res)
    \/ \E s \in Scans, res \in {"ok", "err"} : ScanProviderReturns(s, res)

ScanSpec == ScanInit /\ [][ScanNext]_vars

\* ================================================================ claims
Terminal == {"Success", "Failed"}
CountIn(h, S) == Cardinality({i \in DOMAIN h : h[i] \in S})
LogCount(q) == Cardinality({i \in DOMAIN queryLog : queryLog[i] = q})
\* The call's push is among the last logSize pushes.
Retained(q) ==
    \E i \in DOMAIN pushed : pushed[i] = q /\ i > Len(pushed) - logSize
\* query() returned something other than DatabaseNotFound.
ReturnedPastResolution(q) ==
    result[q].kind \in {"QueryPlanning", "ExecuteStream", "Stream"}
AllReturned == \A q \in Queries : pc[q] \in {"idle", "streaming", "done"}
FullSuccess == <<"Received", "Planned", "Permitted", "Success">>

\* C1: a call of query that got past database resolution and returned has
\* pushed exactly one entry to the query log (held there exactly once for as
\* long as fewer than query_log_size later pushes followed it, never twice),
\* and that entry went through exactly one terminal state, Success or Failed,
\* which is its final state.
C1_OneTerminalEntry ==
    \A q \in Queries :
        ReturnedPastResolution(q) =>
            /\ CountIn(pushed, {q}) = 1
            /\ CountIn(tokenHist[q], {"Received"}) = 1
            /\ LogCount(q) = (IF Retained(q) THEN 1 ELSE 0)
            /\ CountIn(tokenHist[q], Terminal) = 1
            /\ TokenState(q) \in Terminal

C1_Witness ==
    \E q1, q2 \in Queries :
        /\ result[q1].kind = "QueryPlanning" /\ TokenState(q1) = "Failed"
        /\ result[q2].kind = "Stream" /\ TokenState(q2) = "Success"
        /\ LogCount(q2) = 1

Forward ==
    { <<"Received", "Planned">>, <<"Planned", "Permitted">>,
      <<"Permitted", "Success">>, <<"Permitted", "Failed">> }

FollowsOnly(h, steps) ==
    /\ h # <<>> => h[1] = "Received"
    /\ \A i \in 1..(Len(h) - 1) : <<h[i], h[i + 1]>> \in steps
    /\ CountIn(h, Terminal) <= 1

\* C2 as written: every token follows Received -> Planned -> Permitted ->
\* {Success | Failed} with no state skipped, a terminal state being entered
\* only from Permitted.
C2_NoStateSkipped ==
    \A q \in Queries : FollowsOnly(tokenHist[q], Forward)

\* C2, amended: every token moves forward only and makes at most one terminal
\* transition; Planned is entered only from Received, Permitted only from
\* Planned, Success only from Permitted, and Failed from Permitted or, when
\* planning failed, directly from Received.
C2_ForwardOnly ==
    \A q \in Queries :
        /\ FollowsOnly(tokenHist[q], Forward \cup {<<"Received", "Failed">>})
        /\ (Len(tokenHist[q]) = 2 /\ TokenState(q) = "Failed")
              => planOutcome[q] \in PlanErrors

C2_Witness ==
    \E q1, q2 \in Queries :
        /\ tokenHist[q1] = <<"Received", "Failed">>
        /\ tokenHist[q2] = <<"Received", "Planned", "Permitted", "Failed">>

\* C3: when the planner fails for a query, the planner was invoked exactly
\* once, execution of a plan never starts, and once query has returned the
\* token is Failed and the result is a QueryPlanning error carrying the
\* planner's error.
C3_PlanningFailure ==
    \A q \in Queries :
        planOutcome[q] \in PlanErrors =>
            /\ plannerCalls[q] = 1
            /\ ~execStarted[q]
            /\ pc[q] \in {"plan_returned", "done"}
            /\ pc[q] = "done" =>
                  /\ TokenState(q) = "Failed"
                  /\ result[q] = [kind |-> "QueryPlanning",
                                  arg |-> planOutcome[q]]

C3_Witness ==
    \E q \in Queries :
        /\ planOutcome[q] = "bind"
        /\ pc[q] = "done"
        /\ result[q].kind = "QueryPlanning"

\* C4: after planning succeeded, query returns a stream iff the token ends in
\* Success, and an ExecuteStream error iff stream establishment failed and
\* the token ends in Failed; the entry of a returned stream stays at Success
\* whatever happens while the stream is consumed.
C4_StreamOutcome ==
    \A q \in Queries :
        /\ (planOutcome[q] = "ok" /\ pc[q] \in {"streaming", "done"}) =>
              /\ result[q].kind \in {"Stream", "ExecuteStream"}
              /\ result[q].kind = "Stream" <=> TokenState(q) = "Success"
              /\ result[q].kind = "ExecuteStream" <=>
                    (execOutcome[q] \in ExecErrors /\ TokenState(q) = "Failed")
              /\ result[q].kind = "ExecuteStream" =>
                    result[q].arg = execOutcome[q]
        /\ result[q].kind = "Stream" =>
              (execOutcome[q] = "ok" /\ tokenHist[q] = FullSuccess)
        /\ streamErr[q] => tokenHist[q] = FullSuccess

C4_Witness ==
    \E q1, q2 \in Queries :
        /\ pc[q1] = "done" /\ streamErr[q1] /\ TokenState(q1) = "Success"
        /\ pc[q2] = "done" /\ result[q2].kind = "ExecuteStream"

NotInCatalog(n) == n \notin DOMAIN catalog \/ catalog[n] = "absent"
NotFound(db) == [kind |-> "DatabaseNotFound", arg |-> db]

\* C5: a query call that resolves a name the catalog does not hold at that
\* moment (never created, or deleted and so no longer under that name)
\* returns DatabaseNotFound naming that database.
C5_DatabaseNotFound ==
    [][\A q \in Queries :
          (pc[q] = "idle" /\ pc'[q] # "idle" /\ NotInCatalog(qdb'[q])) =>
              (pc'[q] = "done" /\ result'[q] = NotFound(qdb'[q]))]_vars

C5_Witness ==
    \E q1, q2 \in Queries :
        /\ result[q1] = NotFound("bar")
        /\ result[q2] = NotFound("foo")
        /\ catalog[Tombstone("foo")] = "deleted"

\* C6 as written: once every call has returned, the counter equals the
\* number of calls whose planning was dispatched.
C6_CountsEveryDispatch ==
    AllReturned =>
        numQueries = Cardinality({q \in Queries : plannerCalls[q] > 0})

\* C6, amended: the counter is incremented exactly once for every call whose
\* planning succeeded, after its token was permitted and before execution
\* starts, whether stream establishment then succeeds or fails; a call whose
\* planning failed is not counted.
C6_CountsPermitted ==
    /\ numQueries =
          Cardinality({q \in Queries :
              CountIn(tokenHist[q], {"Permitted"}) = 1 /\ pc[q] # "permitted"})
    /\ AllReturned =>
          numQueries = Cardinality({q \in Queries : planOutcome[q] = "ok"})

C6_Witness ==
    \E q1, q2 \in Queries :
        /\ result[q1].kind = "QueryPlanning"
        /\ result[q2].kind = "ExecuteStream"
        /\ numQueries = 1

\* C7 as written: a query whose token is Permitted holds a permit of the
\* query-execution semaphore.
C7_PermittedHoldsPermit ==
    \A q \in Queries :
        TokenState(q) = "Permitted" =>
            /\ <<"query", q>> \in permitHolders
            /\ permitsAvailable < MaxPermits

\* C8: the outstanding permits are exactly those of the callers still in
\* their scope, never more than the capacity; a caller whose scope ended, by
\* success, error or cancellation, holds none, and when no caller holds or
\* waits every permit is available again.
C8_PermitsReleased ==
    /\ permitsAvailable >= 0
    /\ Cardinality(permitHolders) <= MaxPermits
    /\ permitsAvailable + Cardinality(permitHolders) = MaxPermits
    /\ permitHolders = {Holder(c) : c \in {d \in Callers : cpc[d] = "holding"}}
    /\ (\A c \in Callers : cpc[c] \in {"idle", "ended"}) =>
          permitsAvailable = MaxPermits

C8_Witness ==
    /\ \A c \in Callers : cpc[c] = "ended"
    /\ \A why \in EndReasons : \E c \in Callers : cend[c] = why
    /\ permitsAvailable = MaxPermits

InFlight ==
    {p \in Loaders : lpc[p] \in {"future", "collected", "committing"}}

\* C9: the future of a load accepted on an ObjectStoreOnly chunk, when the
\* reorg plan runs without error, ends in one of two ways: with at least one
\* row the chunk becomes ReadBufferAndObjectStore and has the rows in its
\* read buffer; with zero rows it fails with CannotLoadEmptyChunk, the chunk
\* stays ObjectStoreOnly and its object-store rows are kept.
C9_LoadOutcome ==
    [][\A p \in Loaders :
          /\ lpc'[p] \in {"future", "collected", "committing"} =>
                stage' = "ObjectStoreOnly"
          /\ (p \in InFlight /\ lpc'[p] = "done" /\ lres'[p] # "ReorgError") =>
                IF snapshot[p] # {}
                THEN /\ lres'[p] = "Ok"
                     /\ stage' = "ReadBufferAndObjectStore"
                     /\ rbPresent'
                     /\ rbRows' = snapshot[p]
                     /\ osRows' = osRows
                ELSE /\ lres'[p] = "CannotLoadEmptyChunk"
                     /\ stage = "ObjectStoreOnly"
                     /\ stage' = "ObjectStoreOnly"
                     /\ ~rbPresent'
                     /\ osRows' = osRows
                     /\ osRows' = Rows]_vars

C9_Witness ==
    \E p1, p2 \in Loaders :
        /\ lres[p1] = "Ok"
        /\ lres[p2] = "CannotLoadEmptyChunk"
        /\ stage = "ObjectStoreOnly"

\* C10: at most one load attempt is past the Loading transition at any time;
\* a load_chunk call made while the chunk is Loading is rejected, returns no
\* future and leaves the tier and the Loading marker as they are; a call is
\* accepted only on an ObjectStoreOnly chunk that is not Loading, and a
\* commit leaves the chunk not ObjectStoreOnly.
C10_OneLoadInFlight ==
    [][/\ Cardinality(InFlight') <= 1
       /\ \A p \in Loaders :
             /\ (lpc[p] = "guarded" /\ lpc'[p] # "guarded"
                   /\ lifecycleAction # 0) =>
                   /\ lres'[p] = "Rejected"
                   /\ lpc'[p] = "done"
                   /\ stage' = stage
                   /\ lifecycleAction' = lifecycleAction
             /\ (lpc[p] = "guarded" /\ lpc'[p] = "future") =>
                   /\ stage = "ObjectStoreOnly"
                   /\ lifecycleAction = 0
                   /\ lifecycleAction' = p
             /\ (lres[p] # "Ok" /\ lres'[p] = "Ok") =>
                   stage' # "ObjectStoreOnly"]_vars

C10_Witness ==
    \E p1, p2 \in Loaders :
        /\ lpc[p1] \in {"future", "collected"}
        /\ lifecycleAction = p1
        /\ lres[p2] = "Rejected"
        /\ stage = "ObjectStoreOnly"

\* C11: at most one process holds the chunk's write guard at any moment (and
\* no read guard is out while it is held), and every step of load_chunk
\* that changes the chunk's state (entering Loading, committing the
\* read-buffer copy) is taken by the process that holds the write guard.
ChunkStateChanged ==
    \/ stage' # stage
    \/ lifecycleAction' # lifecycleAction
    \/ rbPresent' # rbPresent
    \/ rbRows' # rbRows

C11_ChangesUnderGuard ==
    [][/\ Cardinality(chunkWriter') <= 1
       /\ chunkWriter' # {} => chunkReaders' = {}
       /\ \A p \in Loaders :
             (lpc'[p] # lpc[p] /\ ChunkStateChanged) => chunkWriter = {p}]_vars

C11_Witness ==
    \E p1, p2 \in Loaders :
        /\ lres[p1] = "Ok"
        /\ lpc[p2] = "committing"
        /\ chunkWriter = {p2}
        /\ lifecycleAction = p2

\* C12: from the Loading transition to the commit (while the sort key is
\* computed and the reorg plan is planned, run and collected) load_chunk
\* does not hold the write guard: a reader can take a read guard as soon
\* as no other writer holds the chunk, and what it finds is a chunk that
\* is ObjectStoreOnly and Loading, whose only copy is the object-store one.
LoadingView ==
    [stage |-> "ObjectStoreOnly", loading |-> TRUE, copy |-> "object_store"]

C12_LoadRunsUnlocked ==
    \A p \in Loaders :
        lpc[p] \in {"future", "collected"} =>
            /\ p \notin chunkWriter
            /\ \A r \in Readers :
                  /\ (r \notin chunkReaders /\ chunkWriter = {}) =>
                        ENABLED ReadChunk(r)
                  /\ r \in chunkReaders => seen[r] = LoadingView

C12_Witness ==
    \E p \in Loaders, r \in Readers :
        /\ lpc[p] = "future"
        /\ r \in chunkReaders
        /\ seen[r] = LoadingView
        /\ ~rbPresent

\* C13: the log entry of a cancelled query stays at the last state it
\* recorded and is never marked Failed by the cancellation: dropped while
\* planning is awaited, the entry is Received and execution never starts;
\* dropped while execute_stream is awaited, the entry is Permitted; dropped
\* while the stream is consumed, the entry is Success.
C13_CancelLeavesEntry ==
    \A q \in Queries :
        pc[q] = "cancelled" =>
            /\ TokenState(q) # "Failed"
            /\ planOutcome[q] = "none" =>
                  /\ tokenHist[q] = <<"Received">>
                  /\ ~execStarted[q]
                  /\ result[q] = NoResult
            /\ (execStarted[q] /\ execOutcome[q] = "none") =>
                  tokenHist[q] = <<"Received", "Planned", "Permitted">>
            /\ result[q].kind = "Stream" => tokenHist[q] = FullSuccess

C13_Witness ==
    \E q1, q2 \in Queries :
        /\ pc[q1] = "cancelled" /\ planOutcome[q1] = "none"
        /\ tokenHist[q1] = <<"Received">>
        /\ pc[q2] = "cancelled" /\ result[q2].kind = "Stream"
        /\ TokenState(q2) = "Success"

\* C14: query_log() returns the entries of the one log all queries of the
\* executor share: at most query_log_size of them, namely the most recently
\* pushed ones, in the order they were pushed, the oldest having been evicted
\* on overflow.
Min(a, b) == IF a < b THEN a ELSE b
LastPushed(k) == SubSeq(pushed, Len(pushed) - k + 1, Len(pushed))

InLog(q) == \E i \in DOMAIN QueryLogEntries : QueryLogEntries[i] = q
LogPos(q) == CHOOSE i \in DOMAIN QueryLogEntries : QueryLogEntries[i] = q
PushPos(q) == CHOOSE i \in DOMAIN pushed : pushed[i] = q

C15_CompletionOrder ==
    \A i, j \in DOMAIN completed :
        (i < j /\ InLog(completed[i]) /\ InLog(completed[j])) =>
            LogPos(completed[i]) < LogPos(completed[j])

\* C15, amended: the log is ordered by record_query (the push made when the
\* query is received): of two retained entries the one pushed first comes
\* first, whichever query is marked terminal first.
C15_PushOrder ==
    \A a, b \in Queries :
        (InLog(a) /\ InLog(b)) =>
            (LogPos(a) < LogPos(b) <=> PushPos(a) < PushPos(b))

C15_Witness ==
    \E i, j \in DOMAIN completed :
        /\ i < j
        /\ InLog(completed[i]) /\ InLog(completed[j])
        /\ LogPos(completed[j]) < LogPos(completed[i])
        /\ PushPos(completed[j]) < PushPos(completed[i])

\* C16: a query's Database holds the DatabaseSchema fetched when the query
\* resolved its database: it is the catalog's schema of that moment, and
\* table_names, table_exist and table keep answering from it, unchanged by
\* tables added or removed afterwards; a query resolved later gets the
\* catalog's schema of its own moment.
Resolved(q) == qschema[q] # NoSchema

C16_AnswersFromSnapshot ==
    [][\A q \in Queries :
          /\ (pc[q] = "idle" /\ pc'[q] = "planning") =>
                /\ TableNames(q)' = tables[qdb'[q]]
                /\ \A t \in TableNamesSet :
                      /\ TableExist(q, t)' = (t \in tables[qdb'[q]])
                      /\ QueryTable(q, t)'.found = (t \in tables[qdb'[q]])
          /\ Resolved(q) =>
                /\ TableNames(q)' = TableNames(q)
                /\ \A t \in TableNamesSet :
                      /\ TableExist(q, t)' = TableExist(q, t)
                      /\ QueryTable(q, t)' = QueryTable(q, t)]_vars

C16_Witness ==
    \E q1, q2 \in Queries, t \in TableNamesSet :
        /\ Resolved(q1) /\ Resolved(q2)
        /\ qdb[q1] = qdb[q2]
        /\ pc[q1] = "planning" /\ pc[q2] = "planning"
        /\ PushPos(q1) < PushPos(q2)
        /\ TableExist(q1, t) /\ ~TableExist(q2, t)
        /\ t \notin tables[qdb[q1]]

\* C17: show_databases(false) returns one column, the names of exactly the
\* databases that are not deleted, in ascending order of name;
\* show_databases(true) returns every database with its deleted flag, the
\* databases that are not deleted first, and in ascending order of name
\* among those with the same flag.
RowSet(rows) == {rows[i] : i \in DOMAIN rows}

C17_ShowDatabases ==
    /\ showOut[FALSE] # NoBatch =>
          LET rows == showOut[FALSE].rows
              live == {i \in DOMAIN dbList : ~dbList[i].deleted}
          IN /\ showOut[FALSE].fields = <<"iox::database">>
             /\ Len(rows) = Cardinality(live)
             /\ RowSet(rows) = {<<dbList[i].name>> : i \in live}
             /\ \A i, j \in DOMAIN rows :
                   i < j => StrLess(rows[i][1], rows[j][1])
    /\ showOut[TRUE] # NoBatch =>
          LET rows == showOut[TRUE].rows
          IN /\ showOut[TRUE].fields = <<"iox::database", "deleted">>
             /\ Len(rows) = Len(dbList)
             /\ RowSet(rows) =
                   {<<dbList[i].name, dbList[i].deleted>> : i \in DOMAIN dbList}
             /\ \A i, j \in DOMAIN rows :
                   i < j =>
                      \/ ~rows[i][2] /\ rows[j][2]
                      \/ /\ rows[i][2] = rows[j][2]
                         /\ StrLess(rows[i][1], rows[j][1])

C17_Witness ==
    /\ Len(showOut[TRUE].rows) >= 3
    /\ Len(showOut[FALSE].rows) >= 1
    /\ Len(showOut[FALSE].rows) < Len(showOut[TRUE].rows)
    /\ \E i, j \in DOMAIN dbList :
          /\ dbList[i].deleted /\ ~dbList[j].deleted
          /\ StrLess(dbList[i].name, dbList[j].name)

\* C18: split_database_name maps a name without separator to the name and
\* the policy "autogen", and a name with exactly one separator to the text
\* before it and the text after it.
SlashCount(s) == Cardinality({i \in DOMAIN s : s[i] = Slash})

C18_SplitName ==
    splitOut # NoSplit =>
        /\ SlashCount(splitIn) = 0 => splitOut = <<splitIn, Autogen>>
        /\ SlashCount(splitIn) = 1 =>
              /\ splitIn = splitOut[1] \o <<Slash>> \o splitOut[2]
              /\ SlashCount(splitOut[1]) = 0
              /\ SlashCount(splitOut[2]) = 0

C18_Witness ==
    /\ splitOut # NoSplit
    /\ SlashCount(splitIn) = 1
    /\ splitOut[1] # <<>>
    /\ splitOut[2] # <<>>
    /\ splitOut[2] # Autogen

\* C19: for a name with more than one separator, split_database_name
\* splits on the first separator only: the database is the text before it
\* and the policy is all the text after it ("a/b/c" gives policy "b/c").
FirstSlash(s) ==
    CHOOSE k \in DOMAIN s : s[k] = Slash /\ \A j \in 1..(k - 1) : s[j] # Slash

C19_SplitOnFirstOnly ==
    (splitOut # NoSplit /\ SlashCount(splitIn) > 1) =>
        splitOut = <<SubSeq(splitIn, 1, FirstSlash(splitIn) - 1),
                     SubSeq(splitIn, FirstSlash(splitIn) + 1, Len(splitIn))>>

\* C20: on a catalog that does not change, show_retention_policies(None)
\* returns one row per database name of the catalog, in ascending order of
\* the full name, each row holding the split name and a null duration;
\* show_retention_policies(Some(db)) returns the one row of db, or
\* DatabaseNotFound carrying db when the catalog has no such database.
PolicyRow(full) ==
    [database |-> SplitDatabaseName(full)[1],
     name |-> SplitDatabaseName(full)[2],
     duration |-> "null"]
CatalogNames == {dbList[i].name : i \in DOMAIN dbList}
Ascending ==
    CHOOSE f \in [1..Len(dbList) -> CatalogNames] :
        \A i, j \in 1..Len(dbList) : i < j => StrLess(f[i], f[j])

C20_RetentionPolicies ==
    rpOut # NoOut =>
        IF rpArg = NoArg
        THEN /\ rpOut.kind = "Batch"
             /\ Len(rpOut.rows) = Len(dbList)
             /\ \A i \in DOMAIN rpOut.rows :
                   rpOut.rows[i] = PolicyRow(Ascending[i])
        ELSE IF rpArg \in CatalogNames
        THEN /\ rpOut.kind = "Batch"
             /\ rpOut.rows = <<PolicyRow(rpArg)>>
        ELSE /\ rpOut.kind = "DatabaseNotFound"
             /\ rpOut.arg = rpArg
             /\ rpOut.rows = <<>>

C20_Witness ==
    /\ rpArg = NoArg
    /\ rpOut.kind = "Batch"
    /\ Len(rpOut.rows) >= 3
    /\ \E i \in DOMAIN dbList : i > 1 /\ StrLess(dbList[i].name, dbList[1].name)
    /\ \E i \in DOMAIN rpOut.rows : rpOut.rows[i].name # Autogen

\* C21: what scan asks the chunk provider for depends only on the database
\* name, the table name, the projection and the filters: two scan calls
\* that differ only in limit send the same request to get_table_chunks,
\* and the limit goes only to the scan of the built provider.
Asked(s) == scans[s].pc # "start"

C21_LimitNotInRequest ==
    \A s \in Scans :
        /\ Asked(s) =>
              /\ scans[s].request.db = scanIn[s].db
              /\ scans[s].request.table = scanIn[s].table
              /\ scans[s].request.projection = scanIn[s].projection
              /\ scans[s].request.filters = scanIn[s].filters
              /\ \A t \in Scans :
                    (Asked(t) /\ [scanIn[t] EXCEPT !.limit = scanIn[s].limit]
                                    = scanIn[s]) =>
                        scans[t].request = scans[s].request
        /\ scans[s].build = "ok" =>
              scans[s].providerArgs.limit = scanIn[s].limit

C21_Witness ==
    \E s, t \in Scans :
        /\ scanIn[s].limit # scanIn[t].limit
        /\ scanIn[s].limit # <<>> /\ scanIn[t].limit # <<>>
        /\ [scanIn[t] EXCEPT !.limit = scanIn[s].limit] = scanIn[s]
        /\ scans[s].build = "ok" /\ scans[t].build = "ok"
        /\ scans[s].request = scans[t].request
        /\ scans[s].providerArgs # scans[t].providerArgs

C22_UnloadLoadRoundTrip ==
    [][/\ (stage = "ReadBufferAndObjectStore" /\ stage' = "ObjectStoreOnly") =>
             /\ Len(ChunkSummaries') = Len(ChunkSummaries)
             /\ RunQuery' = RunQuery
       /\ \A p \in Loaders :
             (lres[p] # "Ok" /\ lres'[p] = "Ok") =>
                 /\ ChunkSummaries[1].storage = "ObjectStoreOnly"
                 /\ ChunkSummaries'[1].storage = "ReadBufferAndObjectStore"
                 /\ Len(ChunkSummaries') = Len(ChunkSummaries)
                 /\ RunQuery' = RunQuery
                 /\ RunQuery' = Rows \ deletePreds']_vars

C22_Witness ==
    \E p \in Loaders :
        /\ lres[p] = "Ok"
        /\ ChunkSummaries[1].storage = "ReadBufferAndObjectStore"
        /\ deletePreds = {}
        /\ RunQuery = Rows

\* C24: every load_chunk call registers one job before it attempts the
\* Loading transition, whether the transition is accepted or rejected; the
\* job of an accepted call is running for as long as its future has not
\* finished and complete once it has (committed or failed).
Called(p) == lpc[p] \notin {"idle", "guarded"}

C24_JobPerCall ==
    /\ jobsRegistered = Cardinality({p \in Loaders : Called(p)})
    /\ \A p \in Loaders :
          /\ ~Called(p) => job[p] = "none"
          /\ p \in InFlight => job[p] = "running"
          /\ lpc[p] = "done" => job[p] = "complete"

C24_Witness ==
    \E p1, p2, p3 \in Loaders :
        /\ lres[p1] = "Rejected" /\ job[p1] = "complete"
        /\ lpc[p2] = "future" /\ job[p2] = "running"
        /\ lres[p3] = "Ok" /\ job[p3] = "complete"
        /\ jobsRegistered = 3

C25_NotFoundChangesNothing ==
    [][\A q \in Queries :
          (result[q] = NoResult /\ result'[q].kind = "DatabaseNotFound") =>
              /\ QueryLogEntries' = QueryLogEntries
              /\ pushed' = pushed
              /\ tokenHist' = tokenHist
              /\ numQueries' = numQueries
              /\ permitsAvailable' = permitsAvailable
              /\ permitHolders' = permitHolders
              /\ catalog' = catalog /\ tables' = tables
              /\ plannerCalls'[q] = 0
              /\ ~execStarted'[q]
              /\ tokenHist'[q] = <<>>]_vars

C25_Witness ==
    \E q1, q2 \in Queries :
        /\ result[q1].kind = "DatabaseNotFound"
        /\ result[q2].kind = "Stream"
        /\ PushPos(q2) = 1
        /\ QueryLogEntries = <<q2>>
        /\ numQueries = 1
        /\ plannerCalls[q1] = 0

\* C27: show_retention_policies(None) lists the names once and resolves
\* them one by one while the catalog may change: it returns either one row
\* for every name it listed, in the listed order, or DatabaseNotFound for a
\* listed name that did not resolve when its turn came, with no rows at
\* all; it never returns rows with a listed database left out.
ListedNames == {rpListed[i] : i \in DOMAIN rpListed}

C27_AllOrNothing ==
    [][(rpArg = NoArg /\ rpOut = NoOut /\ rpOut' # NoOut) =>
          \/ /\ rpOut'.kind = "Batch"
             /\ Len(rpOut'.rows) = Len(rpListed)
             /\ \A i \in DOMAIN rpListed :
                   rpOut'.rows[i] = PolicyRow(rpListed[i])
          \/ /\ rpOut'.kind = "DatabaseNotFound"
             /\ rpOut'.arg \in ListedNames
             /\ rpOut'.arg \notin CatalogNames
             /\ rpOut'.rows = <<>>]_vars

C27_Witness ==
    /\ rpArg = NoArg
    /\ rpOut.kind = "DatabaseNotFound"
    /\ rpOut.rows = <<>>
    /\ Len(rpListed) >= 3
    /\ Len(rpRows) >= 1
    /\ rpOut.arg \in ListedNames

====
